---- MODULE Spec2Model ----
(***************************************************************************)
(* A model of pulp's RepoApi (src/src/pulp/api/repo.py) and                *)
(* ConsumerGroupApi (src/src/pulp/server/api/consumer_group.py).           *)
(*                                                                         *)
(* The document store, the crontab scheduler, the package catalog, the     *)
(* feed fetcher, the consumer directory and the agents are the             *)
(* collaborators of the two classes; their state is part of the model.     *)
(* Every API call is one action: it reads the stored record, works on its  *)
(* private copy and, unless an exception is raised first, persists it.     *)
(* Where calls run side by side, the read and the persist of a RepoApi     *)
(* call and the passes of the loop of a fan-out call are steps of their    *)
(* own (procs, fan).                                                       *)
(***************************************************************************)
EXTENDS Integers, Sequences, FiniteSets, TLC

VARIABLES
    repos,      \* db.repos: repository id -> stored Repo record
    timers,     \* the crontab: repository id -> registered cron fields
    catalog,    \* PackageApi's collection: package id -> Package record
    last,       \* the last RepoApi call: operation, arguments, outcome
    procs,      \* RepoApi calls running side by side: each one's position
    groups,     \* consumergroups collection: group id -> ConsumerGroup record
    consumers,  \* the consumer directory: ids of the existing consumers
    sent,       \* commands dispatched by the last ConsumerGroupApi call
    cglast,     \* the last ConsumerGroupApi call: operation, arguments, outcome
    fan         \* the fan-out call (bind, unbind, install...) in progress

vars == <<repos, timers, catalog, last, procs, groups, consumers, sent, cglast, fan>>
repovars == <<repos, timers, catalog, last, procs>>
cgvars == <<groups, consumers, sent, cglast, fan>>

-----------------------------------------------------------------------------
(* Bounds of the model *)

MaxNames == 2       \* longest package-name list of a package group
MaxFetch == 2       \* longest package list one feed fetch returns
MaxReps == 2        \* consecutive identical calls counted by last.reps
MaxMembers == 2     \* longest consumerids list handed to create

-----------------------------------------------------------------------------
(* Python values *)

\* dict: a function whose domain is the set of keys
EmptyMap == <<>>
has_key(m, k) == k \in DOMAIN m
Put(m, k, v) == [x \in DOMAIN m \cup {k} |-> IF x = k THEN v ELSE m[x]]
Del(m, k) == [x \in DOMAIN m \ {k} |-> m[x]]

\* list: a sequence; x in s, s.append(x), s.remove(x) (the first occurrence)
In(x, s) == \E i \in 1..Len(s) : s[i] = x
IndexOf(x, s) == CHOOSE i \in 1..Len(s) : s[i] = x /\ \A j \in 1..(i - 1) : s[j] # x
ListRemove(s, x) ==
    LET i == IndexOf(x, s)
    IN  [j \in 1..(Len(s) - 1) |-> IF j < i THEN s[j] ELSE s[j + 1]]
Count(x, s) == Cardinality({i \in 1..Len(s) : s[i] = x})
NoDuplicates(s) == \A i, j \in 1..Len(s) : s[i] = s[j] => i = j

\* A sync schedule is None or a string; a string is held as its
\* whitespace-separated fields, a number or Star each ("" has no field).
Star == -1
None == [null |-> TRUE, fields |-> <<>>]
Str(f) == [null |-> FALSE, fields |-> f]
Truthy(s) == ~s.null /\ s.fields # <<>>

NoFeed == "None"

-----------------------------------------------------------------------------
(* Outcome of a call: the database it leaves and "ok" or the exception *)

Ok(db) == [db |-> db, result |-> "ok"]
Raise(db, e) == [db |-> db, result |-> e]

\* PulpException("No ... with id: ... found")
NotFoundError == {"NoRepo", "NoPackage", "NoPackageGroup"}

-----------------------------------------------------------------------------
(* crontab and repo_sync: the scheduler *)

FieldMin == <<0, 0, 1, 1, 0>>
FieldMax == <<59, 23, 31, 12, 7>>

\* crontab.CronItem(schedule + ' null').is_valid()
is_valid(fields) ==
    /\ Len(fields) = Len(FieldMin)
    /\ \A i \in 1..Len(fields) :
          fields[i] = Star \/ (FieldMin[i] <= fields[i] /\ fields[i] <= FieldMax[i])

\* repo_sync.update_schedule(config, repo): (re)installs the entry of repo
update_schedule(db, repo) ==
    [db EXCEPT !.timers = Put(@, repo.id, repo.sync_schedule.fields)]

\* repo_sync.delete_schedule(config, repo): removes the entry of repo, if any
delete_schedule(db, repo) == [db EXCEPT !.timers = Del(@, repo.id)]

-----------------------------------------------------------------------------
(* model.Repo and the store *)

Repo(id, feed) ==
    [ id |-> id,
      source |-> feed,
      sync_schedule |-> None,
      packages |-> EmptyMap,
      packagegroups |-> EmptyMap,
      packagegroupcategories |-> EmptyMap ]

\* self.repository(id): the stored record; absent is tested by Exists
Exists(db, id) == id \in DOMAIN db.repos
repository(db, id) == db.repos[id]

\* self.objectdb.save(repo, safe=True) and self.insert(r)
save(db, repo) == [db EXCEPT !.repos = Put(@, repo.id, repo)]

\* self.objectdb.remove({'id': id}, safe=True)
remove(db, id) == [db EXCEPT !.repos = Del(@, id)]

-----------------------------------------------------------------------------
(* RepoApi *)

\* TRUE when no exception is raised
_validate_schedule(sync_schedule) ==
    IF Truthy(sync_schedule) THEN is_valid(sync_schedule.fields) ELSE TRUE

\* update without the delete_schedule branch: an unset schedule keeps the entry
update_KeepsTimer(db, repo) ==
    IF ~_validate_schedule(repo.sync_schedule)
    THEN Raise(db, "InvalidSchedule")
    ELSE IF Truthy(repo.sync_schedule)
         THEN Ok(update_schedule(save(db, repo), repo))
         ELSE Ok(save(db, repo))

update(db, repo) ==
    IF ~_validate_schedule(repo.sync_schedule)
    THEN Raise(db, "InvalidSchedule")
    ELSE IF Truthy(repo.sync_schedule)
         THEN Ok(update_schedule(save(db, repo), repo))
         ELSE Ok(delete_schedule(save(db, repo), repo))

create(db, id, feed, sync_schedule) ==
    IF Exists(db, id)
    THEN Raise(db, "RepoExists")
    ELSE IF ~_validate_schedule(sync_schedule)
    THEN Raise(db, "InvalidSchedule")
    ELSE LET r == [Repo(id, feed) EXCEPT !.sync_schedule = sync_schedule]
             inserted == save(db, r)
         IN  IF Truthy(sync_schedule)
             THEN Ok(update_schedule(inserted, r))
             ELSE Ok(inserted)

\* of an existing repository
delete(db, id) == Ok(remove(delete_schedule(db, repository(db, id)), id))

\* _add_package without the has_key test: the record is replaced
_add_package_Overwrites(repo, p) == [repo EXCEPT !.packages = Put(@, p.id, p)]

\* the repo with p associated
_add_package(repo, p) ==
    IF has_key(repo.packages, p.id)
    THEN repo
    ELSE [repo EXCEPT !.packages = Put(@, p.id, p)]

add_package(db, cat, repoid, packageid) ==
    IF ~Exists(db, repoid)
    THEN Raise(db, "NoRepo")
    ELSE IF ~has_key(cat, packageid)
    THEN Raise(db, "NoPackage")
    ELSE update(db, _add_package(repository(db, repoid), cat[packageid]))

\* add_package up to self.update(repo): the exception raised, or the copy of
\* the record that the call will persist
add_package_local(db, cat, repoid, packageid) ==
    IF ~Exists(db, repoid)
    THEN [result |-> "NoRepo", repo |-> Repo("-", NoFeed)]
    ELSE IF ~has_key(cat, packageid)
    THEN [result |-> "NoPackage", repo |-> Repo("-", NoFeed)]
    ELSE [result |-> "ok",
          repo |-> _add_package(repository(db, repoid), cat[packageid])]

remove_package(db, repoid, p) ==
    IF ~Exists(db, repoid)
    THEN Raise(db, "NoRepo")
    ELSE LET repo == repository(db, repoid)
         IN  IF ~has_key(repo.packages, p.id)
             THEN Raise(db, "KeyError")
             ELSE update(db, [repo EXCEPT !.packages = Del(@, p.id)])

remove_packagegroup(db, repoid, groupid) ==
    IF ~Exists(db, repoid)
    THEN Raise(db, "NoRepo")
    ELSE LET repo == repository(db, repoid)
         IN  IF has_key(repo.packagegroups, groupid)
             THEN update(db, [repo EXCEPT !.packagegroups = Del(@, groupid)])
             ELSE update(db, repo)

update_packagegroup(db, repoid, pg) ==
    IF ~Exists(db, repoid)
    THEN Raise(db, "NoRepo")
    ELSE update(db, [repository(db, repoid) EXCEPT
                        !.packagegroups = Put(@, pg.id, pg)])

RECURSIVE PutAll(_, _)
PutAll(m, items) ==
    IF items = <<>> THEN m
    ELSE PutAll(Put(m, Head(items).id, Head(items)), Tail(items))

update_packagegroups(db, repoid, pglist) ==
    IF ~Exists(db, repoid)
    THEN Raise(db, "NoRepo")
    ELSE update(db, [repository(db, repoid) EXCEPT
                        !.packagegroups = PutAll(@, pglist)])

remove_packagegroupcategory(db, repoid, categoryid) ==
    IF ~Exists(db, repoid)
    THEN Raise(db, "NoRepo")
    ELSE LET repo == repository(db, repoid)
         IN  IF has_key(repo.packagegroupcategories, categoryid)
             THEN update(db, [repo EXCEPT
                                !.packagegroupcategories = Del(@, categoryid)])
             ELSE update(db, repo)

update_packagegroupcategory(db, repoid, pgc) ==
    IF ~Exists(db, repoid)
    THEN Raise(db, "NoRepo")
    ELSE update(db, [repository(db, repoid) EXCEPT
                        !.packagegroupcategories = Put(@, pgc.id, pgc)])

update_packagegroupcategories(db, repoid, pgclist) ==
    IF ~Exists(db, repoid)
    THEN Raise(db, "NoRepo")
    ELSE update(db, [repository(db, repoid) EXCEPT
                        !.packagegroupcategories = PutAll(@, pgclist)])

\* append without the "not in" test
AppendIfAbsent_Always(names, pkg_name) == Append(names, pkg_name)

\* the list after if pkg_name not in list: list.append(pkg_name)
AppendIfAbsent(names, pkg_name) ==
    IF In(pkg_name, names) THEN names ELSE Append(names, pkg_name)

\* the list after if pkg_name in list: list.remove(pkg_name)
RemoveIfPresent(names, pkg_name) ==
    IF In(pkg_name, names) THEN ListRemove(names, pkg_name) ELSE names

\* add_package_to_group without the conditional branch: the else branch
\* takes the kind as default
add_package_to_group_ConditionalAsDefault(db, repoid, groupid, pkg_name, gtype) ==
    IF ~Exists(db, repoid)
    THEN Raise(db, "NoRepo")
    ELSE LET repo == repository(db, repoid)
         IN  IF ~has_key(repo.packagegroups, groupid)
             THEN Raise(db, "NoPackageGroup")
             ELSE IF gtype = "mandatory"
             THEN update(db, [repo EXCEPT
                    !.packagegroups[groupid].mandatory_package_names =
                        AppendIfAbsent(@, pkg_name)])
             ELSE IF gtype = "optional"
             THEN update(db, [repo EXCEPT
                    !.packagegroups[groupid].optional_package_names =
                        AppendIfAbsent(@, pkg_name)])
             ELSE update(db, [repo EXCEPT
                    !.packagegroups[groupid].default_package_names =
                        AppendIfAbsent(@, pkg_name)])

add_package_to_group(db, repoid, groupid, pkg_name, gtype) ==
    IF ~Exists(db, repoid)
    THEN Raise(db, "NoRepo")
    ELSE LET repo == repository(db, repoid)
         IN  IF ~has_key(repo.packagegroups, groupid)
             THEN Raise(db, "NoPackageGroup")
             ELSE IF gtype = "mandatory"
             THEN update(db, [repo EXCEPT
                    !.packagegroups[groupid].mandatory_package_names =
                        AppendIfAbsent(@, pkg_name)])
             ELSE IF gtype = "conditional"
             THEN Raise(db, "NotImplemented")
             ELSE IF gtype = "optional"
             THEN update(db, [repo EXCEPT
                    !.packagegroups[groupid].optional_package_names =
                        AppendIfAbsent(@, pkg_name)])
             ELSE update(db, [repo EXCEPT
                    !.packagegroups[groupid].default_package_names =
                        AppendIfAbsent(@, pkg_name)])

\* remove_package_from_group that takes the name out of every list of the
\* group, whatever the kind
remove_package_from_group_EveryList(db, repoid, groupid, pkg_name, gtype) ==
    IF ~Exists(db, repoid)
    THEN Raise(db, "NoRepo")
    ELSE LET repo == repository(db, repoid)
         IN  IF ~has_key(repo.packagegroups, groupid)
             THEN Raise(db, "NoPackageGroup")
             ELSE IF gtype = "conditional"
             THEN Raise(db, "NotImplemented")
             ELSE update(db, [repo EXCEPT
                    !.packagegroups[groupid].mandatory_package_names =
                        RemoveIfPresent(@, pkg_name),
                    !.packagegroups[groupid].optional_package_names =
                        RemoveIfPresent(@, pkg_name),
                    !.packagegroups[groupid].default_package_names =
                        RemoveIfPresent(@, pkg_name)])

remove_package_from_group(db, repoid, groupid, pkg_name, gtype) ==
    IF ~Exists(db, repoid)
    THEN Raise(db, "NoRepo")
    ELSE LET repo == repository(db, repoid)
         IN  IF ~has_key(repo.packagegroups, groupid)
             THEN Raise(db, "NoPackageGroup")
             ELSE IF gtype = "mandatory"
             THEN update(db, [repo EXCEPT
                    !.packagegroups[groupid].mandatory_package_names =
                        RemoveIfPresent(@, pkg_name)])
             ELSE IF gtype = "conditional"
             THEN Raise(db, "NotImplemented")
             ELSE IF gtype = "optional"
             THEN update(db, [repo EXCEPT
                    !.packagegroups[groupid].optional_package_names =
                        RemoveIfPresent(@, pkg_name)])
             ELSE update(db, [repo EXCEPT
                    !.packagegroups[groupid].default_package_names =
                        RemoveIfPresent(@, pkg_name)])

\* the loop left after its first pass: only the first fetched package is merged
AddAll_FirstOnly(repo, added_packages) ==
    IF added_packages = <<>> THEN repo
    ELSE _add_package(repo, Head(added_packages))

RECURSIVE AddAll(_, _)
\* for p in added_packages: self._add_package(repo, p)
AddAll(repo, added_packages) ==
    IF added_packages = <<>> THEN repo
    ELSE AddAll(_add_package(repo, Head(added_packages)), Tail(added_packages))

\* the outcome of sync, with whether repo_sync.sync (the feed fetch) was called
Fetching(out, called) == [db |-> out.db, result |-> out.result, fetch |-> called]

\* sync that merges and persists what was fetched before the failure is raised
sync_MergesBeforeFailure(db, id, failed, fetched) ==
    IF ~Exists(db, id)
    THEN Fetching(Raise(db, "NoRepo"), FALSE)
    ELSE LET repo == repository(db, id)
         IN  IF repo.source = NoFeed
             THEN Fetching(Raise(db, "NoSource"), FALSE)
             ELSE IF failed
             THEN Fetching(Raise(update(db, AddAll(repo, fetched)).db, "FetchError"),
                           TRUE)
             ELSE Fetching(update(db, AddAll(repo, fetched)), TRUE)

\* sync that calls the feed fetch before it looks at the source
sync_FetchesFirst(db, id, failed, fetched) ==
    IF ~Exists(db, id)
    THEN Fetching(Raise(db, "NoRepo"), FALSE)
    ELSE LET repo == repository(db, id)
         IN  IF failed
             THEN Fetching(Raise(db, "FetchError"), TRUE)
             ELSE IF repo.source = NoFeed
             THEN Fetching(Raise(db, "NoSource"), TRUE)
             ELSE Fetching(update(db, AddAll(repo, fetched)), TRUE)

\* sync up to self.update(repo): the exception raised, or the copy of the
\* record that the call will persist
sync_local(db, id, failed, fetched) ==
    IF ~Exists(db, id)
    THEN [result |-> "NoRepo", repo |-> Repo("-", NoFeed)]
    ELSE LET repo == repository(db, id)
         IN  IF repo.source = NoFeed
             THEN [result |-> "NoSource", repo |-> Repo("-", NoFeed)]
             ELSE IF failed
             THEN [result |-> "FetchError", repo |-> Repo("-", NoFeed)]
             ELSE [result |-> "ok", repo |-> AddAll(repo, fetched)]

\* fetched is what repo_sync.sync returns; it raises when failed is TRUE
sync(db, id, failed, fetched) ==
    IF ~Exists(db, id)
    THEN Fetching(Raise(db, "NoRepo"), FALSE)
    ELSE LET repo == repository(db, id)
         IN  IF repo.source = NoFeed
             THEN Fetching(Raise(db, "NoSource"), FALSE)
             ELSE IF failed
             THEN Fetching(Raise(db, "FetchError"), TRUE)
             ELSE Fetching(update(db, AddAll(repo, fetched)), TRUE)

-----------------------------------------------------------------------------
(* Inputs of the calls *)

RepoIds == {"r1", "r2"}
ContentRepoIds == {"r1"}
Feeds == {NoFeed, "http://feed"}

CronA == <<0, 2, Star, Star, Star>>         \* "0 2 * * *"
CronB == <<30, 4, Star, Star, 1>>           \* "30 4 * * 1"
CronBad == <<99, 2, Star, Star, Star>>      \* "99 2 * * *"
CronShort == <<0, 2>>                       \* "0 2"
Schedules == {None, Str(<<>>), Str(CronA), Str(CronB), Str(CronBad), Str(CronShort)}

PkgIds == {"p1", "p2"}
OnePkgId == {"p1"}
Versions == {1, 2}
Packages == [id : PkgIds, version : Versions]

GroupIds == {"g1", "g2"}
OneGroupId == {"g1"}
Names == {"n1", "n2"}
OneName == {"n1"}
Kinds == {"mandatory", "default", "optional", "conditional"}
CatIds == {"c1", "c2"}
OneCatId == {"c1"}

SeqsUpTo(S, n) == UNION {[1..k -> S] : k \in 0..n}

PackageGroup(id, mandatory, optional, default) ==
    [ id |-> id,
      mandatory_package_names |-> mandatory,
      optional_package_names |-> optional,
      default_package_names |-> default ]

PackageGroupCategory(id, rev) == [id |-> id, rev |-> rev]

-----------------------------------------------------------------------------
(* The calls as actions *)

DB == [repos |-> repos, timers |-> timers]

\* the threads that serve RepoApi calls
Procs == {1, 2}

\* a thread that serves no call
NoProc == [pc |-> "idle", op |-> "-", id |-> "-", key |-> "-", fetched |-> <<>>,
           repo |-> Repo("-", NoFeed), result |-> "-"]

SameCall(op, id, key, name, kind, result) ==
    /\ last.op = op /\ last.id = id /\ last.key = key
    /\ last.name = name /\ last.kind = kind /\ last.result = result

\* the record of a call; reps counts how often it was made in a row
Call(op, id, key, name, kind, result) ==
    [ op |-> op, id |-> id, key |-> key, name |-> name, kind |-> kind,
      result |-> result,
      fetch |-> FALSE,
      sched |-> None,
      fetched |-> <<>>,
      reps |-> IF SameCall(op, id, key, name, kind, result)
               THEN IF last.reps < MaxReps THEN last.reps + 1 ELSE MaxReps
               ELSE 1 ]

Returns(out, op, id, key, name, kind) ==
    /\ repos' = out.db.repos
    /\ timers' = out.db.timers
    /\ last' = Call(op, id, key, name, kind, out.result)
    /\ UNCHANGED <<catalog, procs, cgvars>>

\* a call that is given a sync schedule: last records the schedule too,
\* and does not count such calls in a row
ReturnsScheduled(out, op, id, s) ==
    /\ repos' = out.db.repos
    /\ timers' = out.db.timers
    /\ last' = [Call(op, id, "-", "-", "-", out.result)
                    EXCEPT !.sched = s, !.reps = 1]
    /\ UNCHANGED <<catalog, procs, cgvars>>

Create(id, feed, s) ==
    ReturnsScheduled(create(DB, id, feed, s), "create", id, s)

\* the caller's record: the stored one, or a new one, with schedule s
Update(id, s) ==
    LET repo == IF Exists(DB, id) THEN repository(DB, id) ELSE Repo(id, NoFeed)
    IN  ReturnsScheduled(update(DB, [repo EXCEPT !.sync_schedule = s]),
                         "update", id, s)

\* delete_schedule of no repository (None) may raise or not; nothing is stored
Delete(id) ==
    IF Exists(DB, id)
    THEN Returns(delete(DB, id), "delete", id, "-", "-", "-")
    ELSE \E e \in {"ok", "TypeError"} :
            Returns(Raise(DB, e), "delete", id, "-", "-", "-")

AddPackage(id, p) ==
    Returns(add_package(DB, catalog, id, p), "add_package", id, p, "-", "-")

RemovePackage(id, p) ==
    Returns(remove_package(DB, id, [id |-> p]), "remove_package", id, p, "-", "-")

RemovePackagegroup(id, g) ==
    Returns(remove_packagegroup(DB, id, g), "remove_packagegroup", id, g, "-", "-")

UpdatePackagegroup(id, pg) ==
    Returns(update_packagegroup(DB, id, pg),
            "update_packagegroup", id, pg.id, "-", "-")

UpdatePackagegroups(id, pglist) ==
    Returns(update_packagegroups(DB, id, pglist),
            "update_packagegroups", id, "-", "-", "-")

RemovePackagegroupcategory(id, c) ==
    Returns(remove_packagegroupcategory(DB, id, c),
            "remove_packagegroupcategory", id, c, "-", "-")

UpdatePackagegroupcategory(id, pgc) ==
    Returns(update_packagegroupcategory(DB, id, pgc),
            "update_packagegroupcategory", id, pgc.id, "-", "-")

UpdatePackagegroupcategories(id, pgclist) ==
    Returns(update_packagegroupcategories(DB, id, pgclist),
            "update_packagegroupcategories", id, "-", "-", "-")

AddPackageToGroup(id, g, n, k) ==
    Returns(add_package_to_group(DB, id, g, n, k),
            "add_package_to_group", id, g, n, k)

RemovePackageFromGroup(id, g, n, k) ==
    Returns(remove_package_from_group(DB, id, g, n, k),
            "remove_package_from_group", id, g, n, k)

Sync(id, failed, fetched) ==
    LET out == sync(DB, id, failed, fetched)
    IN  /\ repos' = out.db.repos
        /\ timers' = out.db.timers
        /\ last' = [Call("sync", id, "-", "-", "-", out.result)
                        EXCEPT !.fetch = out.fetch,
                               !.fetched = IF out.result = "ok" THEN fetched
                                           ELSE <<>>]
        /\ UNCHANGED <<catalog, procs, cgvars>>

\* a thread starts a call: it reads the stored record and changes its own
\* copy; what it read and changed is l
Reads(p, op, id, key, fetched, l) ==
    /\ procs[p].pc \notin {"read", "saved"}
    /\ procs' = [procs EXCEPT ![p] =
                    [pc |-> IF l.result = "ok" THEN "read" ELSE "done",
                     op |-> op, id |-> id, key |-> key, fetched |-> fetched,
                     repo |-> l.repo,
                     result |-> IF l.result = "ok" THEN "-" ELSE l.result]]
    /\ UNCHANGED <<repos, timers, catalog, last, cgvars>>

AddPackageReads(p, id, pkg) ==
    Reads(p, "add_package", id, pkg, <<>>, add_package_local(DB, catalog, id, pkg))

SyncReads(p, id, failed, fetched) ==
    Reads(p, "sync", id, "-", fetched, sync_local(DB, id, failed, fetched))

\* the thread reaches self.update(repo) with its copy
Persists(p) ==
    /\ procs[p].pc = "read"
    /\ LET out == update(DB, procs[p].repo)
       IN  /\ repos' = out.db.repos
           /\ timers' = out.db.timers
           /\ procs' = [procs EXCEPT ![p].pc = "done", ![p].result = out.result]
    /\ UNCHANGED <<catalog, last, cgvars>>

\* update(repo) called by a thread with the caller's record, the stored one
\* (or a new one) given schedule s: the exception raised by
\* _validate_schedule, or the record that the call goes on to save
update_local(db, id, s) ==
    LET repo == IF Exists(db, id) THEN repository(db, id) ELSE Repo(id, NoFeed)
    IN  IF ~_validate_schedule(s)
        THEN [result |-> "InvalidSchedule", repo |-> Repo("-", NoFeed)]
        ELSE [result |-> "ok", repo |-> [repo EXCEPT !.sync_schedule = s]]

UpdateReads(p, id, s) ==
    Reads(p, "update", id, "-", <<>>, update_local(DB, id, s))

\* the first step of self.update(repo): self.objectdb.save(repo, safe=True)
Saves(p) ==
    /\ procs[p].pc = "read"
    /\ repos' = save(DB, procs[p].repo).repos
    /\ procs' = [procs EXCEPT ![p].pc = "saved"]
    /\ UNCHANGED <<timers, catalog, last, cgvars>>

\* the second step of self.update(repo): update_schedule when the saved copy
\* has a schedule set, delete_schedule otherwise
Registers(p) ==
    /\ procs[p].pc = "saved"
    /\ timers' = (IF Truthy(procs[p].repo.sync_schedule)
                  THEN update_schedule(DB, procs[p].repo)
                  ELSE delete_schedule(DB, procs[p].repo)).timers
    /\ procs' = [procs EXCEPT ![p].pc = "done", ![p].result = "ok"]
    /\ UNCHANGED <<repos, catalog, last, cgvars>>

\* the catalog gains or replaces a package record (PackageApi, not RepoApi)
CatalogPut(p) ==
    /\ catalog' = Put(catalog, p.id, p)
    /\ UNCHANGED <<repos, timers, last, procs, cgvars>>

-----------------------------------------------------------------------------

NoCall == [op |-> "-", id |-> "-", key |-> "-", name |-> "-", kind |-> "-",
           result |-> "-", fetch |-> FALSE, sched |-> None,
           fetched |-> <<>>, reps |-> 0]

NoCGCall == [op |-> "-", id |-> "-", arg |-> <<>>, errata |-> <<>>,
             types |-> <<>>, result |-> "-", who |-> "-", ret |-> EmptyMap,
             reps |-> 0]

\* no fan-out call was made yet
NoFan == [pc |-> "idle", op |-> "-", id |-> "-", arg |-> <<>>, errata |-> <<>>,
          types |-> <<>>, consumerids |-> <<>>, i |-> 1, sent |-> <<>>,
          result |-> "-", who |-> "-", ret |-> EmptyMap]

Init ==
    /\ repos = EmptyMap
    /\ timers = EmptyMap
    /\ catalog = EmptyMap
    /\ last = NoCall
    /\ procs = [p \in Procs |-> NoProc]
    /\ groups = EmptyMap
    /\ consumers = {}
    /\ sent = <<>>
    /\ cglast = NoCGCall
    /\ fan = NoFan

\* All of RepoApi. Both repositories are created, updated and deleted; r1
\* carries the content: one package, one group, one category.
Next ==
    \/ \E id \in RepoIds, feed \in Feeds, s \in Schedules \ {Str(CronShort)} :
          Create(id, feed, s)
    \/ \E id \in RepoIds, s \in Schedules \ {Str(CronShort)} : Update(id, s)
    \/ \E id \in RepoIds : Delete(id)
    \/ \E id \in ContentRepoIds, p \in OnePkgId : AddPackage(id, p)
    \/ \E id \in ContentRepoIds, p \in OnePkgId : RemovePackage(id, p)
    \/ \E id \in ContentRepoIds, g \in OneGroupId : RemovePackagegroup(id, g)
    \/ \E id \in ContentRepoIds, g \in OneGroupId :
          UpdatePackagegroup(id, PackageGroup(g, <<>>, <<>>, <<>>))
    \/ \E id \in ContentRepoIds, g \in OneGroupId :
          UpdatePackagegroups(id, <<PackageGroup(g, <<>>, <<>>, <<>>)>>)
    \/ \E id \in ContentRepoIds, c \in OneCatId : RemovePackagegroupcategory(id, c)
    \/ \E id \in ContentRepoIds, c \in OneCatId :
          UpdatePackagegroupcategory(id, PackageGroupCategory(c, 1))
    \/ \E id \in ContentRepoIds, c \in OneCatId :
          UpdatePackagegroupcategories(id, <<PackageGroupCategory(c, 1)>>)
    \/ \E id \in ContentRepoIds, g \in OneGroupId, n \in OneName, k \in Kinds :
          AddPackageToGroup(id, g, n, k)
    \/ \E id \in ContentRepoIds, g \in OneGroupId, n \in OneName, k \in Kinds :
          RemovePackageFromGroup(id, g, n, k)
    \/ \E id \in ContentRepoIds, failed \in BOOLEAN,
          fetched \in SeqsUpTo([id : OnePkgId, version : {1}], 1) :
          Sync(id, failed, fetched)
    \/ \E p \in [id : OnePkgId, version : {1}] : CatalogPut(p)

Spec == Init /\ [][Next]_vars

\* Repositories and their schedules: every kind of schedule, on two ids
NextSched ==
    \/ \E id \in RepoIds, feed \in Feeds, s \in Schedules : Create(id, feed, s)
    \/ \E id \in RepoIds, s \in Schedules : Update(id, s)
    \/ \E id \in RepoIds : Delete(id)

SpecSched == Init /\ [][NextSched]_vars

\* what a feed holds: both records of p1 and one of p2
FetchedPackages == Packages \ {[id |-> "p2", version |-> 2]}

\* Packages of one repository: two package ids, two records of each
NextPkg ==
    \/ \E feed \in Feeds, s \in {None, Str(CronA)} : Create("r1", feed, s)
    \/ Delete("r1")
    \/ \E p \in PkgIds : AddPackage("r1", p)
    \/ \E p \in PkgIds : RemovePackage("r1", p)
    \/ \E failed \in BOOLEAN, fetched \in SeqsUpTo(FetchedPackages, MaxFetch) :
          Sync("r1", failed, fetched)
    \/ \E p \in Packages : CatalogPut(p)

SpecPkg == Init /\ [][NextPkg]_vars

\* Package groups of one repository: at most MaxNames names are stored
TotalNames(repo) ==
    LET RECURSIVE Sum(_)
        Sum(S) == IF S = {} THEN 0
                  ELSE LET g == CHOOSE x \in S : TRUE
                       IN  Len(repo.packagegroups[g].mandatory_package_names)
                           + Len(repo.packagegroups[g].optional_package_names)
                           + Len(repo.packagegroups[g].default_package_names)
                           + Sum(S \ {g})
    IN  Sum(DOMAIN repo.packagegroups)

\* the names stored after the step are at most MaxNames
Fits(id) == id \in DOMAIN repos' => TotalNames(repos'[id]) <= MaxNames

\* the groups handed to update_packagegroup(s): empty ones, one with names,
\* and one that names n1 twice as mandatory
PackageGroupInputs ==
    {PackageGroup(g, <<>>, <<>>, <<>>) : g \in GroupIds}
        \cup {PackageGroup("g1", <<"n1">>, <<>>, <<"n2">>),
              PackageGroup("g1", <<"n1", "n1">>, <<>>, <<>>)}

NextGrp ==
    \/ \E s \in {None, Str(CronA)} : Create("r1", NoFeed, s)
    \/ Delete("r1")
    \/ \E g \in GroupIds : RemovePackagegroup("r1", g)
    \/ \E pg \in PackageGroupInputs : UpdatePackagegroup("r1", pg)
    \/ \E pg \in PackageGroupInputs : UpdatePackagegroups("r1", <<pg>>)
    \/ \E g \in GroupIds, n \in Names, k \in Kinds :
          AddPackageToGroup("r1", g, n, k) /\ Fits("r1")
    \/ \E g \in GroupIds, n \in Names, k \in Kinds :
          RemovePackageFromGroup("r1", g, n, k)

SpecGrp == Init /\ [][NextGrp]_vars

\* Two threads serve add_package and sync calls on one repository
NextConc ==
    \/ \E feed \in Feeds : Create("r1", feed, None)
    \/ \E p \in [id : PkgIds, version : {1}] : CatalogPut(p)
    \/ \E p \in Procs, pkg \in PkgIds : AddPackageReads(p, "r1", pkg)
    \/ \E p \in Procs, failed \in BOOLEAN,
          fetched \in SeqsUpTo([id : PkgIds, version : {1}], MaxFetch) :
          SyncReads(p, "r1", failed, fetched)
    \/ \E p \in Procs : Persists(p)

SpecConc == Init /\ [][NextConc]_vars

\* Group membership next to the rest: r1 has a schedule, a package, a
\* category and two groups whose lists change; r2 has a group of its own
NextFrame ==
    \/ \E s \in {None, Str(CronA)} : Create("r1", NoFeed, s)
    \/ Create("r2", NoFeed, None)
    \/ CatalogPut([id |-> "p1", version |-> 1])
    \/ AddPackage("r1", "p1")
    \/ UpdatePackagegroupcategory("r1", PackageGroupCategory("c1", 1))
    \/ \E g \in GroupIds : UpdatePackagegroup("r1", PackageGroup(g, <<>>, <<>>, <<>>))
    \/ UpdatePackagegroup("r2", PackageGroup("g1", <<"n1">>, <<>>, <<>>))
    \/ \E g \in GroupIds, k \in Kinds : AddPackageToGroup("r1", g, "n1", k)
    \/ \E g \in GroupIds, k \in Kinds : RemovePackageFromGroup("r1", g, "n1", k)

SpecFrame == Init /\ [][NextFrame]_vars

\* Two threads serve update and add_package calls on one repository, the
\* save and the change of the crontab of each call being steps of their own
NextUpd ==
    \/ \E s \in {None, Str(CronA)} : Create("r1", NoFeed, s)
    \/ CatalogPut([id |-> "p1", version |-> 1])
    \/ \E p \in Procs, s \in {None, Str(CronA), Str(CronB), Str(CronBad)} :
          UpdateReads(p, "r1", s)
    \/ \E p \in Procs : AddPackageReads(p, "r1", "p1")
    \/ \E p \in Procs : Saves(p)
    \/ \E p \in Procs : Registers(p)

SpecUpd == Init /\ [][NextUpd]_vars

-----------------------------------------------------------------------------
(* The collaborators of ConsumerGroupApi *)

ConsumerIds == {"c1", "c2"}
ConsumerGroupIds == {"cg1", "cg2"}
ErrataIds == {"E1", "E2"}

\* model.ConsumerGroup(id, description, consumerids)
ConsumerGroup(id, description, consumerids) ==
    [id |-> id, description |-> description, consumerids |-> consumerids]

PkgObj(name, arch) == [name |-> name, arch |-> arch]

ErrataType == [e \in ErrataIds |-> IF e = "E1" THEN "security" ELSE "bugfix"]

\* what is applicable to each consumer: errata id -> packages
Applicability ==
    [c \in ConsumerIds |->
        IF c = "c1"
        THEN [e \in ErrataIds |->
                IF e = "E1"
                THEN <<PkgObj("pkgA", "x86_64"), PkgObj("pkgB", "src")>>
                ELSE <<PkgObj("pkgC", "noarch")>>]
        ELSE EmptyMap]

\* consumerApi._applicable_errata(consumer, types): errata id -> packages,
\* of the errata of the given types (of every type when types is empty)
_applicable_errata(consumerid, types) ==
    LET all == Applicability[consumerid]
        ids == {e \in DOMAIN all : types = <<>> \/ In(ErrataType[e], types)}
    IN  [e \in ids |-> all[e]]

RECURSIVE Flatten(_)
Flatten(ss) == IF ss = <<>> THEN <<>> ELSE Head(ss) \o Flatten(Tail(ss))

\* consumerApi.list_package_updates(id, types), of an existing consumer
list_package_updates(consumerid, types) ==
    LET m == _applicable_errata(consumerid, types)
    IN  Flatten([i \in 1..Len(<<"E1", "E2">>) |->
                    IF <<"E1", "E2">>[i] \in DOMAIN m
                    THEN m[<<"E1", "E2">>[i]] ELSE <<>>])

\* agent.packages.install(pkgs), consumerApi.bind and consumerApi.unbind
Command(to, cmd, arg) == [to |-> to, cmd |-> cmd, arg |-> arg]

-----------------------------------------------------------------------------
(* ConsumerGroupApi *)

\* what a call leaves: the collection, the commands it dispatched, "ok" or
\* the exception, the id the exception names, and the value returned
CGOut(gs, cmds, result, who, ret) ==
    [groups |-> gs, sent |-> cmds, result |-> result, who |-> who, ret |-> ret]

\* the PulpExceptions of ConsumerGroupApi that report a missing entity
CGNotFoundError == {"NoGroup", "NoConsumer", "NoRepository"}

\* the last consumerid, in order, that does not resolve; "-" when each does
RECURSIVE LastUnresolved(_, _)
LastUnresolved(consumerids, dir) ==
    IF consumerids = <<>> THEN "-"
    ELSE IF LastUnresolved(Tail(consumerids), dir) # "-"
         THEN LastUnresolved(Tail(consumerids), dir)
    ELSE IF Head(consumerids) \notin dir THEN Head(consumerids)
    ELSE "-"

\* the first consumerid, in order, with self.consumerApi.consumer(consumerid)
\* None; "-" when each resolves
RECURSIVE FirstUnresolved(_, _)
FirstUnresolved(consumerids, dir) ==
    IF consumerids = <<>> THEN "-"
    ELSE IF Head(consumerids) \notin dir THEN Head(consumerids)
    ELSE FirstUnresolved(Tail(consumerids), dir)

cg_create(gs, dir, id, description, consumerids) ==
    IF has_key(gs, id)
    THEN CGOut(gs, <<>>, "GroupExists", id, EmptyMap)
    ELSE IF FirstUnresolved(consumerids, dir) # "-"
    THEN CGOut(gs, <<>>, "NoConsumer", FirstUnresolved(consumerids, dir), EmptyMap)
    ELSE CGOut(Put(gs, id, ConsumerGroup(id, description, consumerids)),
               <<>>, "ok", "-", EmptyMap)

\* the group with the consumer associated
_add_consumer(consumergroup, consumerid) ==
    IF In(consumerid, consumergroup.consumerids)
    THEN consumergroup
    ELSE [consumergroup EXCEPT !.consumerids = Append(@, consumerid)]

\* add_consumer without the lookup of the consumer
add_consumer_Unchecked(gs, dir, groupid, consumerid) ==
    IF ~has_key(gs, groupid)
    THEN CGOut(gs, <<>>, "NoGroup", groupid, EmptyMap)
    ELSE CGOut(Put(gs, groupid, _add_consumer(gs[groupid], consumerid)),
               <<>>, "ok", "-", EmptyMap)

add_consumer(gs, dir, groupid, consumerid) ==
    IF ~has_key(gs, groupid)
    THEN CGOut(gs, <<>>, "NoGroup", groupid, EmptyMap)
    ELSE IF consumerid \notin dir
    THEN CGOut(gs, <<>>, "NoConsumer", consumerid, EmptyMap)
    ELSE CGOut(Put(gs, groupid, _add_consumer(gs[groupid], consumerid)),
               <<>>, "ok", "-", EmptyMap)

delete_consumer(gs, groupid, consumerid) ==
    IF ~has_key(gs, groupid)
    THEN CGOut(gs, <<>>, "NoGroup", groupid, EmptyMap)
    ELSE IF ~In(consumerid, gs[groupid].consumerids)
    THEN CGOut(gs, <<>>, "ok", "-", EmptyMap)
    ELSE CGOut(Put(gs, groupid,
                   [gs[groupid] EXCEPT !.consumerids = ListRemove(@, consumerid)]),
               <<>>, "ok", "-", EmptyMap)

\* pkgs of one consumer: pobj["name"] of each pobj, in order, with
\* pobj["arch"] != "src"
RECURSIVE NonSrcNames(_)
NonSrcNames(pobjs) ==
    IF pobjs = <<>> THEN <<>>
    ELSE IF Head(pobjs).arch # "src"
         THEN <<Head(pobjs).name>> \o NonSrcNames(Tail(pobjs))
         ELSE NonSrcNames(Tail(pobjs))

\* for eid in errataids: for pobj in applicable_errata[eid]: ...
\* the names found and whether every eid was a key (else KeyError)
RECURSIVE ErrataPkgs(_, _)
ErrataPkgs(applicable_errata, errataids) ==
    IF errataids = <<>> THEN [pkgs |-> <<>>, ok |-> TRUE]
    ELSE IF ~has_key(applicable_errata, Head(errataids))
    THEN [pkgs |-> <<>>, ok |-> FALSE]
    ELSE LET rest == ErrataPkgs(applicable_errata, Tail(errataids))
         IN  [pkgs |-> NonSrcNames(applicable_errata[Head(errataids)]) \o rest.pkgs,
              ok |-> rest.ok]

\* one pass of the loop of installerrata: the pkgs to install on consumerid,
\* or the exception raised and the id it names
ErrataStep(dir, id, consumerid, errataids, types) ==
    IF errataids # <<>>
    THEN IF consumerid \notin dir
         THEN [result |-> "TypeError", who |-> consumerid, pkgs |-> <<>>]
         ELSE LET r == ErrataPkgs(_applicable_errata(consumerid, types), errataids)
              IN  IF ~r.ok
                  THEN [result |-> "KeyError", who |-> consumerid, pkgs |-> <<>>]
                  ELSE [result |-> "ok", who |-> "-", pkgs |-> r.pkgs]
    ELSE IF id \notin dir
         THEN [result |-> "NoConsumer", who |-> id, pkgs |-> <<>>]
         ELSE [result |-> "ok", who |-> "-",
               pkgs |-> NonSrcNames(list_package_updates(id, types))]

\* the loop of installerrata over the consumerids still to visit, from the
\* commands sent and the consumer_pkg built so far
RECURSIVE ErrataLoop(_, _, _, _, _, _, _)
ErrataLoop(gs, dir, id, todo, errataids, types, acc) ==
    IF todo = <<>> THEN CGOut(gs, acc.sent, "ok", "-", acc.ret)
    ELSE LET consumerid == Head(todo)
             r == ErrataStep(dir, id, consumerid, errataids, types)
         IN  IF r.result # "ok"
             THEN CGOut(gs, acc.sent, r.result, r.who, EmptyMap)
             ELSE ErrataLoop(gs, dir, id, Tail(todo), errataids, types,
                     [sent |-> Append(acc.sent,
                                  Command(consumerid, "install", r.pkgs)),
                      ret |-> Put(acc.ret, consumerid, r.pkgs)])

installerrata(gs, dir, id, errataids, types) ==
    IF ~has_key(gs, id)
    THEN CGOut(gs, <<>>, "NoGroup", id, EmptyMap)
    ELSE ErrataLoop(gs, dir, id, gs[id].consumerids, errataids, types,
                    [sent |-> <<>>, ret |-> EmptyMap])

-----------------------------------------------------------------------------
(* The fan-out calls of ConsumerGroupApi, one pass of their loop at a time *)

\* a fan-out call that resolved its group and enters the loop over the
\* consumerids it read
FanLoop(op, id, arg, errataids, types, consumerids) ==
    [pc |-> "loop", op |-> op, id |-> id, arg |-> arg, errata |-> errataids,
     types |-> types, consumerids |-> consumerids, i |-> 1, sent |-> <<>>,
     result |-> "-", who |-> "-", ret |-> EmptyMap]

\* the call is over: it returned ("ok") or an exception left it
FanEnd(f, result, who) ==
    [f EXCEPT !.pc = "done", !.result = result, !.who = who]

bind(gs, rs, id, repoid) ==
    IF ~has_key(gs, id)
    THEN FanEnd(FanLoop("bind", id, <<repoid>>, <<>>, <<>>, <<>>), "NoGroup", id)
    ELSE IF repoid \notin DOMAIN rs
    THEN FanEnd(FanLoop("bind", id, <<repoid>>, <<>>, <<>>, <<>>),
                "NoRepository", repoid)
    ELSE FanLoop("bind", id, <<repoid>>, <<>>, <<>>, gs[id].consumerids)

unbind(gs, rs, id, repoid) ==
    IF ~has_key(gs, id)
    THEN FanEnd(FanLoop("unbind", id, <<repoid>>, <<>>, <<>>, <<>>), "NoGroup", id)
    ELSE IF repoid \notin DOMAIN rs
    THEN FanEnd(FanLoop("unbind", id, <<repoid>>, <<>>, <<>>, <<>>),
                "NoRepository", repoid)
    ELSE FanLoop("unbind", id, <<repoid>>, <<>>, <<>>, gs[id].consumerids)

installpackages(gs, id, packagenames) ==
    IF ~has_key(gs, id)
    THEN FanEnd(FanLoop("installpackages", id, packagenames, <<>>, <<>>, <<>>),
                "NoGroup", id)
    ELSE FanLoop("installpackages", id, packagenames, <<>>, <<>>,
                 gs[id].consumerids)

\* installerrata up to its loop
installerrata_start(gs, id, errataids, types) ==
    IF ~has_key(gs, id)
    THEN FanEnd(FanLoop("installerrata", id, <<>>, errataids, types, <<>>),
                "NoGroup", id)
    ELSE FanLoop("installerrata", id, <<>>, errataids, types, gs[id].consumerids)

\* the list the loop runs over, were it read from the collection at each pass
Members_Live(f, gs) == IF has_key(gs, f.id) THEN gs[f.id].consumerids ELSE <<>>

\* the list the loop runs over: consumerids, read once before the loop
Members(f, gs) == f.consumerids

\* one pass of the loop: the call made for the next consumerid; delivered is
\* whether that call returns (it raises otherwise)
dispatch(f, gs, dir, delivered) ==
    LET consumerid == Members(f, gs)[f.i]
        r == IF f.op = "installerrata"
             THEN ErrataStep(dir, f.id, consumerid, f.errata, f.types)
             ELSE [result |-> "ok", who |-> "-", pkgs |-> f.arg]
        cmd == IF f.op \in {"bind", "unbind"} THEN f.op ELSE "install"
    IN  IF r.result # "ok" THEN FanEnd(f, r.result, r.who)
        ELSE IF ~delivered THEN FanEnd(f, "DispatchError", consumerid)
        ELSE [f EXCEPT !.i = @ + 1,
                       !.sent = Append(@, Command(consumerid, cmd, r.pkgs)),
                       !.ret = IF f.op = "installerrata"
                               THEN Put(@, consumerid, r.pkgs) ELSE @]

-----------------------------------------------------------------------------
(* The calls of ConsumerGroupApi as actions *)

SameCGCall(op, id, arg, errata, types, out) ==
    /\ cglast.op = op /\ cglast.id = id /\ cglast.arg = arg
    /\ cglast.errata = errata /\ cglast.types = types
    /\ cglast.result = out.result

CGCall(op, id, arg, errata, types, out) ==
    [ op |-> op, id |-> id, arg |-> arg, errata |-> errata, types |-> types,
      result |-> out.result, who |-> out.who, ret |-> out.ret,
      reps |-> IF SameCGCall(op, id, arg, errata, types, out)
               THEN IF cglast.reps < MaxReps THEN cglast.reps + 1 ELSE MaxReps
               ELSE 1 ]

CGReturns(out, op, id, arg, errata, types) ==
    /\ groups' = out.groups
    /\ sent' = out.sent
    /\ cglast' = CGCall(op, id, arg, errata, types, out)
    /\ UNCHANGED <<consumers, fan, repovars>>

CGCreate(id, consumerids) ==
    CGReturns(cg_create(groups, consumers, id, "description", consumerids),
              "create", id, consumerids, <<>>, <<>>)

AddConsumer(groupid, consumerid) ==
    CGReturns(add_consumer(groups, consumers, groupid, consumerid),
              "add_consumer", groupid, <<consumerid>>, <<>>, <<>>)

DeleteConsumer(groupid, consumerid) ==
    CGReturns(delete_consumer(groups, groupid, consumerid),
              "delete_consumer", groupid, <<consumerid>>, <<>>, <<>>)

InstallErrata(id, errataids, types) ==
    CGReturns(installerrata(groups, consumers, id, errataids, types),
              "installerrata", id, <<>>, errataids, types)

\* the consumer directory gains or loses a consumer (ConsumerApi)
ConsumerCreate(c) ==
    /\ c \notin consumers
    /\ consumers' = consumers \cup {c}
    /\ UNCHANGED <<groups, sent, cglast, fan, repovars>>

ConsumerDelete(c) ==
    /\ c \in consumers
    /\ consumers' = consumers \ {c}
    /\ UNCHANGED <<groups, sent, cglast, fan, repovars>>

\* a fan-out call starts: it resolves its arguments and reads consumerids
FanStarts(f) ==
    /\ fan.pc # "loop"
    /\ fan' = f
    /\ UNCHANGED <<groups, consumers, sent, cglast, repovars>>

BindCall(id, repoid) == FanStarts(bind(groups, repos, id, repoid))

UnbindCall(id, repoid) == FanStarts(unbind(groups, repos, id, repoid))

InstallPackagesCall(id, packagenames) ==
    FanStarts(installpackages(groups, id, packagenames))

InstallErrataCall(id, errataids, types) ==
    FanStarts(installerrata_start(groups, id, errataids, types))

\* the next pass of the loop of the fan-out call in progress
Dispatch(delivered) ==
    /\ fan.pc = "loop"
    /\ fan.i <= Len(Members(fan, groups))
    /\ fan' = dispatch(fan, groups, consumers, delivered)
    /\ UNCHANGED <<groups, consumers, sent, cglast, repovars>>

\* the loop is exhausted and the call returns
FanReturn ==
    /\ fan.pc = "loop"
    /\ fan.i > Len(Members(fan, groups))
    /\ fan' = FanEnd(fan, "ok", "-")
    /\ UNCHANGED <<groups, consumers, sent, cglast, repovars>>

ErrataInputs == {<<>>, <<"E1">>, <<"E2">>, <<"E1", "E2">>}
TypeInputs == {<<>>, <<"security">>}

NextCG ==
    \/ \E id \in ConsumerGroupIds, cs \in SeqsUpTo(ConsumerIds, MaxMembers) :
          CGCreate(id, cs)
    \/ \E id \in ConsumerGroupIds, c \in ConsumerIds : AddConsumer(id, c)
    \/ \E id \in ConsumerGroupIds, c \in ConsumerIds : DeleteConsumer(id, c)
    \/ \E id \in ConsumerGroupIds, es \in ErrataInputs, ts \in TypeInputs :
          InstallErrata(id, es, ts)
    \/ \E c \in ConsumerIds : ConsumerCreate(c)
    \/ \E c \in ConsumerIds : ConsumerDelete(c)

SpecCG == Init /\ [][NextCG]_vars

\* The fan-out calls on one group, while its membership changes, the
\* directory changes and the repository r1 comes to exist
NextFan ==
    \/ Create("r1", NoFeed, None)
    \/ \E cs \in {<<"c1">>, <<"c1", "c1">>, <<"c2", "c1">>} : CGCreate("cg1", cs)
    \/ \E c \in ConsumerIds : AddConsumer("cg1", c)
    \/ \E c \in ConsumerIds : DeleteConsumer("cg1", c)
    \/ \E c \in ConsumerIds : ConsumerCreate(c)
    \/ \E c \in ConsumerIds : ConsumerDelete(c)
    \/ BindCall("cg1", "r1")
    \/ UnbindCall("cg1", "r1")
    \/ InstallPackagesCall("cg1", <<"pkgA">>)
    \/ \E es \in {<<>>, <<"E1">>} : InstallErrataCall("cg1", es, <<>>)
    \/ \E delivered \in BOOLEAN : Dispatch(delivered)
    \/ FanReturn

SpecFan == Init /\ [][NextFan]_vars

-----------------------------------------------------------------------------
(* Steps that are one call *)

\* a step that is the RepoApi call recorded in last'
RepoStep(op) == last'.op = op /\ UNCHANGED <<catalog, procs, cgvars>>

\* a step that is the ConsumerGroupApi call recorded in cglast'
CGStep(op) == cglast'.op = op /\ UNCHANGED <<consumers, fan, repovars>>

MembershipKinds == {"mandatory", "default", "optional"}

\* the list of a package group that a kind names
KindList(group, kind) ==
    CASE kind = "mandatory" -> group.mandatory_package_names
      [] kind = "optional" -> group.optional_package_names
      [] OTHER -> group.default_package_names

-----------------------------------------------------------------------------
(* C1 *)

\* C1: after any sequence of RepoApi calls the scheduler holds a timer entry
\* for a repository id exactly when a repository of that id is stored with a
\* set (non-empty) sync schedule, and the registered cron spec is the stored
\* schedule; so an update to a null schedule and a delete leave no entry.
C1_TimerIffScheduled ==
    \A r \in DOMAIN timers \cup DOMAIN repos \cup RepoIds :
        /\ r \in DOMAIN timers <=>
              (r \in DOMAIN repos /\ Truthy(repos[r].sync_schedule))
        /\ r \in DOMAIN timers => timers[r] = repos[r].sync_schedule.fields

\* r1 was just updated to a schedule that is not set and has no timer entry,
\* while r2 keeps its own
C1_Witness ==
    /\ last.op = "update" /\ last.id = "r1" /\ last.result = "ok"
    /\ "r1" \in DOMAIN repos /\ ~Truthy(repos["r1"].sync_schedule)
    /\ "r1" \notin DOMAIN timers
    /\ "r2" \in DOMAIN timers /\ timers["r2"] = CronB

-----------------------------------------------------------------------------
(* C2 *)

\* C2: when the feed fetch raises during sync, the stored repository (its
\* packages map with it) and the scheduler are as before the call: nothing
\* is merged and nothing is persisted.
C2_FetchErrorLeavesRepo ==
    [][(RepoStep("sync") /\ last'.result = "FetchError")
          => (repos' = repos /\ timers' = timers)]_vars

\* a sync of a repository that carries a package has failed in the fetch
C2_Witness ==
    /\ last.op = "sync" /\ last.result = "FetchError"
    /\ last.id \in DOMAIN repos
    /\ repos[last.id].packages # EmptyMap

-----------------------------------------------------------------------------
(* C3 *)

\* C3: add_package(R, P) made a second time in a row, P known to the
\* catalog, leaves the packages map of R as the first call left it: P.id is
\* a key and the record under it is still the one the first call stored.
C3_AddPackageTwice ==
    [][(RepoStep("add_package") /\ last'.result = "ok" /\ last'.reps >= 2)
          => /\ repos'[last'.id].packages = repos[last'.id].packages
             /\ last'.key \in DOMAIN repos'[last'.id].packages
             /\ repos'[last'.id].packages[last'.key].id = last'.key]_vars

\* add_package was made twice in a row and the catalog's record of the
\* package is no longer the one stored in the repository
C3_Witness ==
    /\ last.op = "add_package" /\ last.result = "ok" /\ last.reps >= 2
    /\ last.id \in DOMAIN repos
    /\ last.key \in DOMAIN repos[last.id].packages
    /\ last.key \in DOMAIN catalog
    /\ catalog[last.key] # repos[last.id].packages[last.key]

-----------------------------------------------------------------------------
(* C4 *)

\* C4: remove_package(R, p) on an existing repository without key p.id
\* fails with NotFoundError leaving the stored repository and the scheduler
\* unchanged; with the key present it removes exactly that key and persists.
C4_RemovePackageStrict ==
    [][(RepoStep("remove_package") /\ last'.id \in DOMAIN repos)
          => IF last'.key \in DOMAIN repos[last'.id].packages
             THEN /\ last'.result = "ok"
                  /\ repos' = [repos EXCEPT ![last'.id].packages =
                                                Del(@, last'.key)]
             ELSE /\ last'.result \in NotFoundError
                  /\ repos' = repos
                  /\ timers' = timers]_vars

-----------------------------------------------------------------------------
(* C5 *)

\* C5: for an existing repository and package group and a kind among
\* mandatory, default and optional: add_package_to_group made a second time
\* in a row with the same name leaves the kind's list as the first call left
\* it, and remove_package_from_group of a name that is not in the kind's
\* list succeeds and leaves the three lists of the group unchanged.
C5_GroupMembershipIdempotent ==
    [][/\ (/\ RepoStep("add_package_to_group")
           /\ last'.result = "ok" /\ last'.reps >= 2
           /\ last'.kind \in MembershipKinds)
          => /\ repos'[last'.id].packagegroups[last'.key] =
                    repos[last'.id].packagegroups[last'.key]
             /\ Count(last'.name,
                      KindList(repos'[last'.id].packagegroups[last'.key],
                               last'.kind)) >= 1
       /\ (/\ RepoStep("remove_package_from_group")
           /\ last'.id \in DOMAIN repos
           /\ last'.key \in DOMAIN repos[last'.id].packagegroups
           /\ last'.kind \in MembershipKinds
           /\ ~In(last'.name,
                  KindList(repos[last'.id].packagegroups[last'.key], last'.kind)))
          => /\ last'.result = "ok"
             /\ repos'[last'.id].packagegroups[last'.key] =
                    repos[last'.id].packagegroups[last'.key]]_vars

\* a name was added twice in a row to the mandatory list of a group
C5_Witness ==
    /\ last.op = "add_package_to_group" /\ last.result = "ok"
    /\ last.reps >= 2 /\ last.kind = "mandatory"
    /\ last.id \in DOMAIN repos
    /\ last.key \in DOMAIN repos[last.id].packagegroups
    /\ Count(last.name,
             repos[last.id].packagegroups[last.key].mandatory_package_names) = 1

-----------------------------------------------------------------------------
(* C6 *)

GroupMembershipOps == {"add_package_to_group", "remove_package_from_group"}

\* C6: on an existing repository, add_package_to_group and
\* remove_package_from_group fail with NotFoundError when the group id is
\* no key of the package groups, and with the not-implemented error when
\* the group exists and the kind is conditional; either way the stored
\* repository and the scheduler are unchanged.
C6_GroupMembershipErrors ==
    [][\A op \in GroupMembershipOps :
          (RepoStep(op) /\ last'.id \in DOMAIN repos)
             => /\ last'.key \notin DOMAIN repos[last'.id].packagegroups
                   => /\ last'.result = "NoPackageGroup"
                      /\ last'.result \in NotFoundError
                      /\ repos' = repos /\ timers' = timers
                /\ (/\ last'.key \in DOMAIN repos[last'.id].packagegroups
                    /\ last'.kind = "conditional")
                   => /\ last'.result = "NotImplemented"
                      /\ repos' = repos /\ timers' = timers]_vars

\* a conditional membership was refused for a group that holds a name
C6_Witness ==
    /\ last.op \in GroupMembershipOps /\ last.result = "NotImplemented"
    /\ last.id \in DOMAIN repos
    /\ last.key \in DOMAIN repos[last.id].packagegroups
    /\ repos[last.id].packagegroups[last.key].default_package_names # <<>>

-----------------------------------------------------------------------------
(* C7 *)

\* C7: in every reachable state no stored consumer group has a consumer id
\* twice in its consumerids, whatever create, add_consumer and
\* delete_consumer calls were made.
C7_NoDuplicateConsumerIds ==
    \A g \in DOMAIN groups : NoDuplicates(groups[g].consumerids)

-----------------------------------------------------------------------------
(* C8 *)

\* C8: for an existing group G and consumer C: after add_consumer(G, C) made
\* twice in a row C occurs exactly once in the consumerids of G; after
\* delete_consumer(G, C) C does not occur in them; and delete_consumer of a
\* consumer that is no member succeeds and leaves the stored group unchanged.
C8_ConsumerMembership ==
    [][/\ (/\ CGStep("add_consumer")
           /\ cglast'.result = "ok" /\ cglast'.reps >= 2)
          => Count(cglast'.arg[1], groups'[cglast'.id].consumerids) = 1
       /\ (CGStep("delete_consumer") /\ cglast'.id \in DOMAIN groups)
          => /\ cglast'.result = "ok"
             /\ ~In(cglast'.arg[1], groups'[cglast'.id].consumerids)
             /\ ~In(cglast'.arg[1], groups[cglast'.id].consumerids)
                   => groups' = groups]_vars

-----------------------------------------------------------------------------
(* C9 *)

\* the least index of a consumer id that the directory does not resolve
FirstMissing(consumerids) ==
    CHOOSE i \in 1..Len(consumerids) :
        /\ consumerids[i] \notin consumers
        /\ \A j \in 1..(i - 1) : consumerids[j] \in consumers

\* C9: create fails with the already-exists error when the id is taken, and
\* otherwise with the not-found error naming the first given consumer id, in
\* input order, that the directory does not resolve; a failed create leaves
\* the collection unchanged, and a group is inserted only when every given
\* id resolves.
C9_CreateChecks ==
    [][CGStep("create")
          => LET id == cglast'.id
                 consumerids == cglast'.arg
                 unresolved == \E i \in 1..Len(consumerids) :
                                  consumerids[i] \notin consumers
             IN  /\ id \in DOMAIN groups
                    => cglast'.result = "GroupExists" /\ groups' = groups
                 /\ (id \notin DOMAIN groups /\ unresolved)
                    => /\ cglast'.result = "NoConsumer"
                       /\ cglast'.who = consumerids[FirstMissing(consumerids)]
                       /\ groups' = groups
                 /\ (id \notin DOMAIN groups /\ ~unresolved)
                    => /\ cglast'.result = "ok"
                       /\ DOMAIN groups' = DOMAIN groups \cup {id}
                       /\ groups'[id].consumerids = consumerids
                       /\ \A g \in DOMAIN groups : groups'[g] = groups[g]]_vars

\* create was refused for a list of two ids neither of which resolves, and
\* the error names the first
C9_Witness ==
    /\ cglast.op = "create" /\ cglast.result = "NoConsumer"
    /\ cglast.arg = <<"c2", "c1">> /\ cglast.who = "c2"
    /\ cglast.id \notin DOMAIN groups
    /\ groups # EmptyMap
    /\ consumers = {}

-----------------------------------------------------------------------------
(* C10 *)

\* the names a consumer is to install for the errata ids: of its applicable
\* packages of each requested erratum, those whose arch is not src; an
\* erratum the consumer has no entry for gives none
RECURSIVE ExpectedNames(_, _, _)
ExpectedNames(consumerid, errataids, types) ==
    IF errataids = <<>> THEN <<>>
    ELSE LET e == Head(errataids)
             entry == IF /\ e \in DOMAIN Applicability[consumerid]
                         /\ (types = <<>> \/ In(ErrataType[e], types))
                      THEN Applicability[consumerid][e] ELSE <<>>
             names == [i \in {j \in 1..Len(entry) : entry[j].arch # "src"}
                          |-> entry[i].name]
         IN  [k \in 1..Cardinality(DOMAIN names) |->
                 names[CHOOSE i \in DOMAIN names :
                          Cardinality({j \in DOMAIN names : j <= i}) = k]]
             \o ExpectedNames(consumerid, Tail(errataids), types)

\* C10: installerrata(G, errataIds, types) with errata ids given, on a group
\* whose members all resolve, succeeds and returns a map whose keys are the
\* member ids of G, each with the names of that member's applicable non-src
\* packages for the errata ids, which is also what was dispatched to that
\* member's agent; a member with no entry for an erratum gets the empty list.
C10_InstallErrataResult ==
    [][(/\ CGStep("installerrata")
        /\ cglast'.errata # <<>>
        /\ cglast'.id \in DOMAIN groups
        /\ \A i \in 1..Len(groups[cglast'.id].consumerids) :
              groups[cglast'.id].consumerids[i] \in consumers)
          => LET members == groups[cglast'.id].consumerids
                 ids == {members[i] : i \in 1..Len(members)}
             IN  /\ cglast'.result = "ok"
                 /\ DOMAIN cglast'.ret = ids
                 /\ \A c \in ids :
                       cglast'.ret[c] =
                           ExpectedNames(c, cglast'.errata, cglast'.types)
                 /\ Len(sent') = Len(members)
                 /\ \A i \in 1..Len(members) :
                       sent'[i] = Command(members[i], "install",
                                          cglast'.ret[members[i]])]_vars

-----------------------------------------------------------------------------
(* C11 *)

\* C11: sync(id) fails with the not-found error when no repository id is
\* stored, and with the not-set-up-for-sync error when the repository has
\* no feed; in both cases the feed fetch is not called and the stored
\* repositories and the scheduler are unchanged.
C11_SyncRefusals ==
    [][RepoStep("sync")
          => /\ last'.id \notin DOMAIN repos
                => /\ last'.result = "NoRepo"
                   /\ last'.result \in NotFoundError
                   /\ ~last'.fetch
                   /\ repos' = repos /\ timers' = timers
             /\ (last'.id \in DOMAIN repos /\ repos[last'.id].source = NoFeed)
                => /\ last'.result = "NoSource"
                   /\ ~last'.fetch
                   /\ repos' = repos /\ timers' = timers]_vars

\* sync was refused for a scheduled repository without feed that carries
\* a package
C11_Witness ==
    /\ last.op = "sync" /\ last.result = "NoSource" /\ ~last.fetch
    /\ last.id \in DOMAIN repos
    /\ repos[last.id].source = NoFeed
    /\ repos[last.id].packages # EmptyMap
    /\ last.id \in DOMAIN timers

-----------------------------------------------------------------------------
(* C12 *)

\* a step of the fan-out call, of one of the given operations
FanStep(ops) == fan' # fan /\ fan'.op \in ops

\* C12: bind and unbind raise a not-found exception exactly when the group or
\* the repository does not exist, and then no consumer-level call was made;
\* a call that returns made exactly one consumer-level bind (unbind) call
\* with the repoid for each id of the consumerids it read and none for any
\* other consumer; no step of the call changes the stored groups.
C12_BindUnbind ==
    [][FanStep({"bind", "unbind"})
          => /\ groups' = groups
             /\ fan.pc # "loop"
                   => ((fan'.id \notin DOMAIN groups \/ fan'.arg[1] \notin DOMAIN repos)
                          <=> /\ fan'.pc = "done"
                              /\ fan'.result \in CGNotFoundError
                              /\ fan'.sent = <<>>)
             /\ (fan'.pc = "done" /\ fan'.result = "ok")
                   => \A c \in ConsumerIds :
                         Count(Command(c, fan'.op, fan'.arg), fan'.sent)
                            = (IF In(c, fan'.consumerids) THEN 1 ELSE 0)]_vars

-----------------------------------------------------------------------------
(* C13 *)

\* the packages that the call of a thread adds are stored in its repository
Reflected(w) ==
    /\ w.id \in DOMAIN repos
    /\ w.op = "add_package" => has_key(repos[w.id].packages, w.key)
    /\ w.op = "sync"
          => \A i \in 1..Len(w.fetched) :
                has_key(repos[w.id].packages, w.fetched[i].id)

\* C13: when two threads have each completed a mutating call (add_package or
\* sync) on the same repository, however their reads and persists were
\* ordered, the stored record holds what both added: no update is lost.
C13_NoLostUpdate ==
    \A p, q \in Procs :
        (/\ p # q
         /\ procs[p].pc = "done" /\ procs[p].result = "ok"
         /\ procs[q].pc = "done" /\ procs[q].result = "ok"
         /\ procs[p].id = procs[q].id)
        => Reflected(procs[p]) /\ Reflected(procs[q])

-----------------------------------------------------------------------------
(* C14 *)

\* the consumers that the fan-out call has sent a command to, in order
Recipients == [i \in 1..Len(fan.sent) |-> fan.sent[i].to]

\* C14: a fan-out call (installpackages, installerrata, bind, unbind)
\* dispatches along the consumerids it read when it resolved the group,
\* whatever add_consumer and delete_consumer do to the stored group
\* meanwhile: at every moment the consumers it has dispatched to are the
\* first of that list, and when it returns they are exactly that list, so
\* a consumer added after the read gets no command and one removed after
\* the read still gets its command.
C14_SnapshotDispatch ==
    /\ Len(Recipients) <= Len(fan.consumerids)
    /\ Recipients = SubSeq(fan.consumerids, 1, Len(Recipients))
    /\ (fan.pc = "done" /\ fan.result = "ok") => Recipients = fan.consumerids

\* installpackages is about to return: during its loop c1, which it read
\* and sent the command to, left the group and c2, which got none, joined
C14_Witness ==
    /\ fan.pc = "loop" /\ fan.op = "installpackages"
    /\ fan.i > Len(fan.consumerids)
    /\ fan.consumerids = <<"c1">> /\ Recipients = <<"c1">>
    /\ fan.id \in DOMAIN groups /\ groups[fan.id].consumerids = <<"c2">>

-----------------------------------------------------------------------------
(* C15 *)

\* C15: the dispatch to one consumer does not depend on the others: when a
\* fan-out call is over and the agent (or consumer-level bind/unbind) call
\* for one member failed, every other member of the consumerids the call
\* read has had its command dispatched.
C15_IndependentDispatch ==
    (fan.pc = "done" /\ fan.result = "DispatchError")
    => \A j \in 1..Len(fan.consumerids) :
          fan.consumerids[j] # fan.who => In(fan.consumerids[j], Recipients)

-----------------------------------------------------------------------------
(* C16 *)

\* a schedule string that is not in cron syntax (the empty string is one)
Invalid(s) == ~s.null /\ ~is_valid(s.fields)

\* C16: a schedule string that is not in cron syntax is rejected before
\* anything is persisted: create with it inserts no repository and registers
\* no timer, update with it leaves the stored records and the timers as they
\* were; create of an id that exists fails as already existing and changes
\* nothing; and a null schedule is always accepted, stored as null with no
\* timer.
C16_InvalidScheduleRejected ==
    [][/\ (/\ RepoStep("create") \/ RepoStep("update")
           /\ last'.op = "create" => last'.id \notin DOMAIN repos
           /\ Invalid(last'.sched))
          => /\ last'.result = "InvalidSchedule"
             /\ repos' = repos /\ timers' = timers
       /\ (RepoStep("create") /\ last'.id \in DOMAIN repos)
          => /\ last'.result = "RepoExists"
             /\ repos' = repos /\ timers' = timers
       /\ (/\ RepoStep("create") \/ RepoStep("update")
           /\ last'.op = "create" => last'.id \notin DOMAIN repos
           /\ last'.sched = None)
          => /\ last'.result = "ok"
             /\ repos'[last'.id].sync_schedule = None
             /\ last'.id \notin DOMAIN timers']_vars

-----------------------------------------------------------------------------
(* C17 *)

\* C17: whatever update_packagegroup, update_packagegroups,
\* add_package_to_group and remove_package_from_group calls were made, each
\* of the mandatory, default and optional lists of every stored package
\* group holds a package name at most once; so after
\* remove_package_from_group succeeds the name is not in the kind's list.
C17_GroupNamesUnique ==
    [][/\ \A r \in DOMAIN repos' : \A g \in DOMAIN repos'[r].packagegroups :
              \A k \in MembershipKinds :
                  NoDuplicates(KindList(repos'[r].packagegroups[g], k))
       /\ (/\ RepoStep("remove_package_from_group")
           /\ last'.result = "ok" /\ last'.kind \in MembershipKinds)
          => ~In(last'.name,
                 KindList(repos'[last'.id].packagegroups[last'.key],
                          last'.kind))]_vars

-----------------------------------------------------------------------------
(* C18 *)

\* C18: installerrata(G, [], types) with no errata ids, on a group whose
\* members all resolve, succeeds; what it dispatches to each member c and
\* returns under key c is the names of c's own package updates under the
\* type filter (the updates listed for consumer id c) whose arch is not src.
C18_InstallAllUpdates ==
    [][(/\ CGStep("installerrata")
        /\ cglast'.errata = <<>>
        /\ cglast'.id \in DOMAIN groups
        /\ \A i \in 1..Len(groups[cglast'.id].consumerids) :
              groups[cglast'.id].consumerids[i] \in consumers)
          => LET members == groups[cglast'.id].consumerids
                 ids == {members[i] : i \in 1..Len(members)}
                 own(c) == NonSrcNames(list_package_updates(c, cglast'.types))
             IN  /\ cglast'.result = "ok"
                 /\ DOMAIN cglast'.ret = ids
                 /\ \A c \in ids : cglast'.ret[c] = own(c)
                 /\ Len(sent') = Len(members)
                 /\ \A i \in 1..Len(members) :
                       sent'[i] = Command(members[i], "install",
                                          own(members[i]))]_vars

-----------------------------------------------------------------------------
(* C19 *)

\* C19: a sync that succeeds merges the whole fetched list: the keys of the
\* stored packages afterwards are the previous keys together with the ids
\* of all fetched packages, every package stored before keeps its record (a
\* fetched package with a stored id does not replace it), none is removed,
\* and a new key holds a fetched record of that id.
C19_SyncMergesAll ==
    [][(RepoStep("sync") /\ last'.result = "ok")
          => LET old == repos[last'.id].packages
                 new == repos'[last'.id].packages
                 f == last'.fetched
             IN  /\ DOMAIN new = DOMAIN old \cup {f[i].id : i \in 1..Len(f)}
                 /\ \A k \in DOMAIN old : new[k] = old[k]
                 /\ \A k \in DOMAIN new \ DOMAIN old : In(new[k], f)]_vars

\* a sync fetched a second record of p1, which was stored, and p2, which was
\* not: p1 keeps its first record and p2 is stored
C19_Witness ==
    /\ last.op = "sync" /\ last.result = "ok"
    /\ last.fetched = <<[id |-> "p1", version |-> 2], [id |-> "p2", version |-> 1]>>
    /\ repos[last.id].packages =
          [k \in {"p1", "p2"} |-> [id |-> k, version |-> 1]]

-----------------------------------------------------------------------------
(* C20 *)

\* C20: add_consumer(G, C) checks existence when it is called and only then:
\* it raises a not-found exception and leaves the stored groups unchanged
\* when G is not stored or C does not resolve in the consumer directory, so
\* an id that add_consumer appends resolved at the moment of the call; and
\* a change of the directory (a consumer deleted later) leaves every
\* consumerids as it was.
C20_AddConsumerChecks ==
    [][/\ CGStep("add_consumer")
          => /\ cglast'.id \notin DOMAIN groups
                   => cglast'.result = "NoGroup" /\ groups' = groups
             /\ (cglast'.id \in DOMAIN groups /\ cglast'.arg[1] \notin consumers)
                   => cglast'.result = "NoConsumer" /\ groups' = groups
             /\ cglast'.result \in {"NoGroup", "NoConsumer"}
                   => cglast'.result \in CGNotFoundError
             /\ groups' # groups
                   => /\ cglast'.arg[1] \in consumers
                      /\ groups'[cglast'.id].consumerids =
                            Append(groups[cglast'.id].consumerids, cglast'.arg[1])
       /\ consumers' # consumers => groups' = groups]_vars

\* c1 was added to a group by add_consumer and then deleted from the
\* directory: it is still in the consumerids
C20_Witness ==
    /\ cglast.op = "add_consumer" /\ cglast.result = "ok"
    /\ cglast.arg = <<"c1">> /\ "c1" \notin consumers
    /\ groups[cglast.id].consumerids = <<"c2", "c1">>

-----------------------------------------------------------------------------
(* C21 *)

\* C21: when two calls that go through update() on the same repository have
\* both completed, however their saves and their changes of the crontab
\* were ordered, the scheduler holds a timer entry for the repository
\* exactly when the stored record has a sync schedule set, and the entry is
\* that schedule: no stale and no missing timer.
C21_TimerAfterConcurrentUpdates ==
    \A p, q \in Procs :
        (/\ p # q
         /\ procs[p].pc = "done" /\ procs[q].pc = "done"
         /\ procs[p].id = procs[q].id)
        => LET r == procs[p].id
           IN  /\ r \in DOMAIN timers <=>
                     (r \in DOMAIN repos /\ Truthy(repos[r].sync_schedule))
               /\ r \in DOMAIN timers => timers[r] = repos[r].sync_schedule.fields

-----------------------------------------------------------------------------
(* C22 *)

\* C22: a successful add_package_to_group or remove_package_from_group on
\* repository R, group g and kind k (mandatory, default or optional) changes
\* at most the k list of g in R: the packages, the package-group
\* categories and the sync schedule of R, the two other lists of g, every
\* other group of R and every other repository are as they were.
C22_GroupMembershipFrame ==
    [][\A op \in GroupMembershipOps :
          (RepoStep(op) /\ last'.result = "ok" /\ last'.kind \in MembershipKinds)
             => LET R == last'.id
                    g == last'.key
                IN  /\ DOMAIN repos' = DOMAIN repos
                    /\ \A r \in DOMAIN repos \ {R} : repos'[r] = repos[r]
                    /\ repos'[R].packages = repos[R].packages
                    /\ repos'[R].packagegroupcategories =
                          repos[R].packagegroupcategories
                    /\ repos'[R].sync_schedule = repos[R].sync_schedule
                    /\ DOMAIN repos'[R].packagegroups = DOMAIN repos[R].packagegroups
                    /\ \A h \in DOMAIN repos[R].packagegroups \ {g} :
                          repos'[R].packagegroups[h] = repos[R].packagegroups[h]
                    /\ \A k \in MembershipKinds \ {last'.kind} :
                          KindList(repos'[R].packagegroups[g], k) =
                             KindList(repos[R].packagegroups[g], k)]_vars

\* n1 was just removed from the optional list of g1 in r1, which keeps it
\* as mandatory and default, next to group g2 that names n1, a package, a
\* category and a schedule of r1, and the group of r2
C22_Witness ==
    /\ last.op = "remove_package_from_group" /\ last.result = "ok"
    /\ last.id = "r1" /\ last.key = "g1" /\ last.kind = "optional"
    /\ repos["r1"].packagegroups["g1"] = PackageGroup("g1", <<"n1">>, <<>>, <<"n1">>)
    /\ "g2" \in DOMAIN repos["r1"].packagegroups
    /\ repos["r1"].packagegroups["g2"].optional_package_names = <<"n1">>
    /\ repos["r1"].packages # EmptyMap
    /\ repos["r1"].packagegroupcategories # EmptyMap
    /\ Truthy(repos["r1"].sync_schedule)
    /\ "r2" \in DOMAIN repos /\ repos["r2"].packagegroups # EmptyMap

====
